---- MODULE Spec2Model ----
(***************************************************************************)
(* Acquisition-and-consolidation pipeline of Painel-do-Clima:              *)
(*   backend/adaptabrasil_batch_ingestor.py  (retrying fetch, batch run)   *)
(*   backend/process_resolution_files.py     (entity consolidation)        *)
(***************************************************************************)
EXTENDS Integers, Sequences, FiniteSets, TLC

\* ------------------------------------------------------------------------
\* Bounds of the model
\* ------------------------------------------------------------------------
MaxRetriesArg == 4          \* largest max_retries tried in the stand-alone retry runs
MaxBackoffArg == 3          \* largest backoff base tried in the stand-alone retry runs
MaxFailedCalls == 7         \* raising fetch calls the provider produces in one batch run
MaxFiles == 3               \* fragment files in the data directory before a consolidation
MaxRuns == 2                \* consolidation runs in a row
MaxIoFaults == 4            \* raising writes and renames over the consolidation runs
MaxStatesArg == 2            \* length of the configured state lists drawn from a small alphabet
PipelineFaults == 1         \* raising fetch calls, and raising file operations, in a pipeline run

\* ------------------------------------------------------------------------
\* Values
\* ------------------------------------------------------------------------
None == [t |-> "None"]      \* Python's None where a document or a response is expected
Null == "None"              \* a scalar that is None / a key that is missing (its str())
Raise == [t |-> "raise"]    \* outcome of a call that raised an Exception

VARIABLES
    fpc,            \* fetch_with_retries: "idle", "loop" (at the while test), "returned"
    attempt,        \* fetch_with_retries: local attempt
    max_retries,    \* fetch_with_retries: keyword argument
    backoff,        \* fetch_with_retries: keyword argument
    outcomes,       \* history: outcome of every fetch_fn call of this invocation
    waits,          \* history: argument of every time.sleep of this invocation
    ret             \* fetch_with_retries: returned value

retryVars == <<fpc, attempt, max_retries, backoff, outcomes, waits, ret>>

VARIABLES
    bpc,                    \* batch main(): position
    cfg_state,              \* config["state"] as parse_states returns it
    cfg_resolution,         \* config["resolution"] as parse_resolutions returns it
    mapa_dados_file,        \* (indicator_id, year) pairs of mapa-dados.txt
    trends_file,            \* pairs of trends-2030-2050.txt, or NoFile
    debug,                  \* save_full_response / debug flag
    states,                 \* main: states (after the regional override)
    resolutions,            \* main: resolutions
    overrides,              \* number of logged override warnings
    total_requests,         \* main: total_requests
    total_success,          \* main: total_success
    total_fail,             \* main: total_fail
    global_progress,        \* main: global_progress
    success,                \* main: success (per state and resolution)
    fail,                   \* main: fail (per state and resolution)
    ri,                     \* number of resolutions entered
    si,                     \* number of states entered for the current resolution
    kind,                   \* "present" or "future": the inner loop running
    ii,                     \* number of pairs entered in the running inner loop
    events,                 \* history: tasks started, their ends and the delay sleeps, in order
    failBudget,             \* raising fetch calls the environment may still produce
    flaky,                  \* the states whose requests the provider may fail
    dataDir,                \* fragment files directly in the data directory: name -> content
    brDir,                  \* fragment files in the BR/ subdirectory: name -> content
    ioBudget                \* raising file operations the environment may still produce

batchVars == <<bpc, cfg_state, cfg_resolution, mapa_dados_file, trends_file, debug,
               states, resolutions, overrides, total_requests, total_success, total_fail,
               global_progress, success, fail, ri, si, kind, ii, events, failBudget, flaky>>
dirVars == <<dataDir, brDir, ioBudget>>

VARIABLES
    cpc,                    \* consolidation main(): position
    dirOrder,               \* order in which the data directory lists its entries
    indicator_files,        \* main: indicator_files (glob result)
    future_trend_files,     \* main: future_trend_files (glob result)
    fi,                     \* files entered in the running file loop
    resKeys,                \* keys of resolution_entity_map, in insertion order
    entities,               \* entity records of resolution_entity_map, in insertion order
    future_lookup,          \* main: future_lookup
    entity_filelist,        \* main: entity_filelist entries, in insertion order
    wi,                     \* entity records entered in the write loop
    mi,                     \* files entered in the archiving loop
    moved_files,            \* main: moved_files
    downloads,              \* files in the downloads/ directory: name -> content
    entityFiles,            \* consolidated entity files on disk: path -> content
    manifestFile,           \* entity_filelist.json on disk, None when absent
    runs,                   \* consolidation runs started
    cerr,                   \* what ended the last run that crashed
    moveFailed,             \* history: files whose os.rename raised in the current run
    inputs,                 \* history: the globbed files of the current run and their content
    base,                   \* history: entity files on disk when the run (or the run it repeats) began
    repeating,              \* history: the current run repeats a run that crashed before archiving
    prevOut                 \* history: inputs and outputs of the last run that completed

consolVars == <<cpc, dirOrder, indicator_files, future_trend_files, fi, resKeys, entities,
                future_lookup, entity_filelist, wi, mi, moved_files, downloads,
                entityFiles, manifestFile, runs, cerr, moveFailed, inputs, base, repeating,
                prevOut>>
vars == <<retryVars, batchVars, dirVars, consolVars>>

\* ------------------------------------------------------------------------
\* fetch_with_retries
\* ------------------------------------------------------------------------
RECURSIVE Pow(_, _)
Pow(b, e) == IF e = 0 THEN 1 ELSE b * Pow(b, e - 1)

\* while attempt < max_retries
RetryLoopCondOffByOne(a, m) == a <= m
RetryLoopCond(a, m) == a < m

\* wait = backoff ** attempt   (attempt already incremented)
BackoffWaitLinear(b, a) == b * a
BackoffWait(b, a) == Pow(b, a)

\* entry of fetch_with_retries(fetch_fn, ..., max_retries=m, backoff=b)
FetchEnter(m, b) ==
    /\ fpc' = "loop"
    /\ attempt' = 0
    /\ max_retries' = m
    /\ backoff' = b
    /\ outcomes' = <<>>
    /\ waits' = <<>>
    /\ ret' = None

\* one loop iteration in which fetch_fn returns r
FetchAttemptOk(r) ==
    /\ fpc = "loop"
    /\ RetryLoopCond(attempt, max_retries)
    /\ outcomes' = Append(outcomes, r)
    /\ ret' = r
    /\ fpc' = "returned"
    /\ UNCHANGED <<attempt, max_retries, backoff, waits>>

\* one loop iteration in which fetch_fn raises: count, compute the wait, sleep
FetchAttemptFail ==
    /\ fpc = "loop"
    /\ RetryLoopCond(attempt, max_retries)
    /\ outcomes' = Append(outcomes, Raise)
    /\ attempt' = attempt + 1
    /\ waits' = Append(waits, BackoffWait(backoff, attempt + 1))
    /\ UNCHANGED <<fpc, max_retries, backoff, ret>>

\* loop exit: FAILED after max_retries attempts, return None
FetchExhausted ==
    /\ fpc = "loop"
    /\ ~RetryLoopCond(attempt, max_retries)
    /\ ret' = None
    /\ fpc' = "returned"
    /\ UNCHANGED <<attempt, max_retries, backoff, outcomes, waits>>

\* ------------------------------------------------------------------------
\* Files and fragments
\* ------------------------------------------------------------------------
Range(seq) == {seq[i] : i \in 1..Len(seq)}

\* dict / directory update: d[k] = v
Put(d, k, v) == [x \in (DOMAIN d) \cup {k} |-> IF x = k THEN v ELSE d[x]]

EmptyDir == <<>>

\* a file name is its '_'-separated fields followed by '.' and the extension
FileName(parts) == [parts |-> parts, ext |-> "json"]

\* f"mapa-dados_{resolution}_{state}_{indicator_id}_{year}.json"
SummaryPath(resolution, state, indicator_id, year) ==
    FileName(<<"mapa-dados", resolution, state, indicator_id, year>>)

\* f"future_trends_{resolution}_{state}_{indicator_id}_{year}.json"
FuturePath(resolution, state, indicator_id, year) ==
    FileName(<<"future", "trends", resolution, state, indicator_id, year>>)

\* f"..._{year}_raw.json"
DebugPath(path) == FileName(Append(path.parts, "raw"))

\* a file whose bytes are not a JSON document (interrupted json.dump, foreign file)
Malformed == [t |-> "malformed"]

\* body of a mapa-dados response: a JSON array of per-entity objects
PresentBody(recs) == [t |-> "list", recs |-> recs]

\* body of a future-trends response: {year: {scenario: {valuecolor, valuelabel, data}}}
TrendBody(years) == [t |-> "trend", years |-> years]

\* the remote provider: fetch_indicators / fetch_future_trends on a 2xx answer
ProviderResponse(task) ==
    IF task.kind = "present"
    THEN PresentBody(<< [id |-> task.state, name |-> task.state, nome |-> Null,
                         geocod_ibge |-> Null, indicator_id |-> task.indicator_id,
                         year |-> task.year, value |-> "3.5"] >>)
    ELSE TrendBody([y \in {task.year} |->
                      [sc \in {"mid"} |->
                         [valuecolor |-> "c", valuelabel |-> "l",
                          data |-> << [id |-> task.state, value |-> "4.2"] >>]]])

\* parsed JSON bodies handed to the stand-alone runs of fetch_with_retries
Responses == {PresentBody(<<>>), TrendBody(<<>>)}

\* ------------------------------------------------------------------------
\* Batch ingestor: main()
\* ------------------------------------------------------------------------
\* a pairs file: present with its (indicator_id, year) pairs, or not on disk
PairsFile(pairs) == [exists |-> TRUE, pairs |-> pairs]
NoFile == [exists |-> FALSE, pairs |-> <<>>]

\* get_all_brazilian_states()
get_all_brazilian_states ==
    << "AC", "AL", "AM", "AP", "BA", "CE", "DF", "ES", "GO", "MA",
       "MG", "MS", "MT", "PA", "PB", "PE", "PI", "PR", "RJ", "RN",
       "RO", "RR", "RS", "SC", "SE", "SP", "TO" >>

\* try: load_indicator_year_pairs(trends_file) except FileNotFoundError: []
LoadTrends(f) == IF f.exists THEN f.pairs ELSE <<>>

\* if len(states) < len(all_states) or set(states) != set(all_states)
NeedsOverrideOrderSensitive(st, all) == st # all
NeedsOverride(st, all) == Len(st) < Len(all) \/ Range(st) # Range(all)

\* states after the "regiao" block of main()
OverriddenStatesAppending(st, res) ==
    IF "regiao" \in Range(res) /\ NeedsOverride(st, get_all_brazilian_states)
    THEN st \o get_all_brazilian_states ELSE st
OverriddenStates(st, res) ==
    IF "regiao" \in Range(res) /\ NeedsOverride(st, get_all_brazilian_states)
    THEN get_all_brazilian_states ELSE st

\* total_requests = len(states) * len(resolutions) * (len(mapa) + len(trends))
TotalRequests(st, res, mapa, trends) == Len(st) * Len(res) * (Len(mapa) + Len(trends))

\* effective_output_dir: BR/ for the regional resolution, output_dir otherwise
IsRegional(resolution) == resolution = "regiao"

PairsOf(k) == IF k = "present" THEN mapa_dados_file ELSE LoadTrends(trends_file)

\* the task of the i-th pair of the running inner loop
TaskAtFromLast(i) ==
    [kind |-> kind, resolution |-> resolutions[ri], state |-> states[si],
     indicator_id |-> PairsOf(kind)[Len(PairsOf(kind)) + 1 - i][1],
     year |-> PairsOf(kind)[Len(PairsOf(kind)) + 1 - i][2]]
TaskAt(i) ==
    [kind |-> kind, resolution |-> resolutions[ri], state |-> states[si],
     indicator_id |-> PairsOf(kind)[i][1], year |-> PairsOf(kind)[i][2]]

CurrentTask == TaskAt(ii)

TaskPath(task) ==
    IF task.kind = "present"
    THEN SummaryPath(task.resolution, task.state, task.indicator_id, task.year)
    ELSE FuturePath(task.resolution, task.state, task.indicator_id, task.year)

\* main() up to the resolution loop: parse, regional override, totals, counters
BatchPlan ==
    /\ bpc = "start"
    /\ resolutions' = cfg_resolution
    /\ states' = OverriddenStates(cfg_state, cfg_resolution)
    /\ overrides' = IF "regiao" \in Range(cfg_resolution)
                       /\ NeedsOverride(cfg_state, get_all_brazilian_states)
                    THEN overrides + 1 ELSE overrides
    /\ total_requests' = TotalRequests(states', resolutions', mapa_dados_file,
                                       LoadTrends(trends_file))
    /\ total_success' = 0
    /\ total_fail' = 0
    /\ global_progress' = 0
    /\ bpc' = "resolutions"
    /\ UNCHANGED <<cfg_state, cfg_resolution, mapa_dados_file, trends_file, debug,
                   success, fail, ri, si, kind, ii, events, failBudget, flaky>>
    /\ UNCHANGED <<retryVars, dirVars, consolVars>>

\* for resolution in resolutions: (loop head and, when exhausted, the final summary)
BatchResolutionLoop ==
    /\ bpc = "resolutions"
    /\ IF ri < Len(resolutions)
       THEN /\ ri' = ri + 1
            /\ si' = 0
            /\ bpc' = "states"
       ELSE /\ bpc' = "done"
            /\ UNCHANGED <<ri, si>>
    /\ UNCHANGED <<cfg_state, cfg_resolution, mapa_dados_file, trends_file, debug,
                   states, resolutions, overrides, total_requests, total_success,
                   total_fail, global_progress, success, fail, kind, ii, events,
                   failBudget, flaky>>
    /\ UNCHANGED <<retryVars, dirVars, consolVars>>

\* for state in states: (loop head)
BatchStateLoop ==
    /\ bpc = "states"
    /\ IF si < Len(states)
       THEN /\ si' = si + 1
            /\ success' = 0
            /\ fail' = 0
            /\ kind' = "present"
            /\ ii' = 0
            /\ bpc' = "pairs"
       ELSE /\ bpc' = "resolutions"
            /\ UNCHANGED <<si, success, fail, kind, ii>>
    /\ UNCHANGED <<cfg_state, cfg_resolution, mapa_dados_file, trends_file, debug,
                   states, resolutions, overrides, total_requests, total_success,
                   total_fail, global_progress, ri, events, failBudget, flaky>>
    /\ UNCHANGED <<retryVars, dirVars, consolVars>>

\* head of an inner loop with a pair left: progress counters, then the call of
\* fetch_with_retries(fetch_fn, state, indicator_id, year, resolution)
BatchTaskStart ==
    /\ bpc = "pairs"
    /\ ii < Len(PairsOf(kind))
    /\ ii' = ii + 1
    /\ global_progress' = global_progress + 1
    /\ events' = Append(events, [ev |-> "task", task |-> TaskAt(ii + 1)])
    /\ FetchEnter(3, 2)
    /\ bpc' = "fetch"
    /\ UNCHANGED <<cfg_state, cfg_resolution, mapa_dados_file, trends_file, debug,
                   states, resolutions, overrides, total_requests, total_success,
                   total_fail, success, fail, ri, si, kind, failBudget, flaky>>
    /\ UNCHANGED <<dirVars, consolVars>>

\* the present loop is exhausted: load the trends pairs, go on with the future loop
BatchPresentDone ==
    /\ bpc = "pairs"
    /\ kind = "present"
    /\ ii >= Len(PairsOf(kind))
    /\ kind' = "future"
    /\ ii' = 0
    /\ UNCHANGED <<bpc, cfg_state, cfg_resolution, mapa_dados_file, trends_file, debug,
                   states, resolutions, overrides, total_requests, total_success,
                   total_fail, global_progress, success, fail, ri, si, events,
                   failBudget, flaky>>
    /\ UNCHANGED <<retryVars, dirVars, consolVars>>

\* total_success += success / total_fail += fail
AddCountOverwrite(total, n) == n
AddCount(total, n) == total + n

\* the future loop is exhausted (or skipped): state summary, totals
BatchStateDone ==
    /\ bpc = "pairs"
    /\ kind = "future"
    /\ ii >= Len(PairsOf(kind))
    /\ total_success' = AddCount(total_success, success)
    /\ total_fail' = AddCount(total_fail, fail)
    /\ bpc' = "states"
    /\ UNCHANGED <<cfg_state, cfg_resolution, mapa_dados_file, trends_file, debug,
                   states, resolutions, overrides, total_requests, global_progress,
                   success, fail, ri, si, kind, ii, events, failBudget, flaky>>
    /\ UNCHANGED <<retryVars, dirVars, consolVars>>

\* fetch_with_retries running inside a task
BatchFetchOk ==
    /\ bpc = "fetch"
    /\ FetchAttemptOk(ProviderResponse(CurrentTask))
    /\ UNCHANGED <<batchVars, dirVars, consolVars>>

BatchFetchFail ==
    /\ bpc = "fetch"
    /\ failBudget > 0
    /\ CurrentTask.state \in flaky
    /\ FetchAttemptFail
    /\ failBudget' = failBudget - 1
    /\ UNCHANGED flaky
    /\ UNCHANGED <<bpc, cfg_state, cfg_resolution, mapa_dados_file, trends_file, debug,
                   states, resolutions, overrides, total_requests, total_success,
                   total_fail, global_progress, success, fail, ri, si, kind, ii, events>>
    /\ UNCHANGED <<dirVars, consolVars>>

BatchFetchExhausted ==
    /\ bpc = "fetch"
    /\ FetchExhausted
    /\ UNCHANGED <<batchVars, dirVars, consolVars>>

\* save_json(response, path) and, when debug, save_json(response, debug_path)
Saved(dir, path, body, dbg) ==
    IF dbg THEN Put(Put(dir, path, body), DebugPath(path), body)
    ELSE Put(dir, path, body)

\* what a save_json that raises leaves behind: nothing (open failed) or a file
\* cut short (json.dump failed)
SaveFailures(dir, path) == {dir, Put(dir, path, Malformed)}

\* the end of one fetch task: its outcome is counted, then time.sleep(delay)
TaskEndSleepOnSuccess(outcome) ==
    IF outcome = "saved" THEN << [ev |-> outcome], [ev |-> "delay"] >>
    ELSE << [ev |-> outcome] >>
TaskEnd(outcome) == << [ev |-> outcome], [ev |-> "delay"] >>

\* fetch_with_retries returned a response: the fragment is saved, success += 1, sleep
BatchTaskSaved ==
    /\ bpc = "fetch"
    /\ fpc = "returned"
    /\ ret # None
    /\ IF IsRegional(CurrentTask.resolution)
       THEN /\ brDir' = Saved(brDir, TaskPath(CurrentTask), ret, debug)
            /\ UNCHANGED dataDir
       ELSE /\ dataDir' = Saved(dataDir, TaskPath(CurrentTask), ret, debug)
            /\ UNCHANGED brDir
    /\ UNCHANGED ioBudget
    /\ success' = success + 1
    /\ events' = events \o TaskEnd("saved")
    /\ fpc' = "idle"
    /\ bpc' = "pairs"
    /\ UNCHANGED <<cfg_state, cfg_resolution, mapa_dados_file, trends_file, debug,
                   states, resolutions, overrides, total_requests, total_success,
                   total_fail, global_progress, fail, ri, si, kind, ii, failBudget, flaky>>
    /\ UNCHANGED <<attempt, max_retries, backoff, outcomes, waits, ret>>
    /\ UNCHANGED consolVars

\* fetch_with_retries returned a response and save_json raises: nothing in main()
\* catches it, the process ends with a traceback
BatchTaskSaveRaises ==
    /\ bpc = "fetch"
    /\ fpc = "returned"
    /\ ret # None
    /\ IF IsRegional(CurrentTask.resolution)
       THEN /\ brDir' \in SaveFailures(brDir, TaskPath(CurrentTask))
            /\ UNCHANGED dataDir
       ELSE /\ dataDir' \in SaveFailures(dataDir, TaskPath(CurrentTask))
            /\ UNCHANGED brDir
    /\ ioBudget > 0
    /\ ioBudget' = ioBudget - 1
    /\ events' = Append(events, [ev |-> "write_error"])
    /\ fpc' = "idle"
    /\ bpc' = "crashed"
    /\ UNCHANGED <<cfg_state, cfg_resolution, mapa_dados_file, trends_file, debug,
                   states, resolutions, overrides, total_requests, total_success,
                   total_fail, global_progress, success, fail, ri, si, kind, ii,
                   failBudget, flaky>>
    /\ UNCHANGED <<attempt, max_retries, backoff, outcomes, waits, ret>>
    /\ UNCHANGED consolVars

\* fetch_with_retries returned None: fail += 1, sleep
BatchTaskFailed ==
    /\ bpc = "fetch"
    /\ fpc = "returned"
    /\ ret = None
    /\ fail' = fail + 1
    /\ events' = events \o TaskEnd("failure")
    /\ fpc' = "idle"
    /\ bpc' = "pairs"
    /\ UNCHANGED <<cfg_state, cfg_resolution, mapa_dados_file, trends_file, debug,
                   states, resolutions, overrides, total_requests, total_success,
                   total_fail, global_progress, success, ri, si, kind, ii, failBudget, flaky>>
    /\ UNCHANGED <<attempt, max_retries, backoff, outcomes, waits, ret>>
    /\ UNCHANGED <<dirVars, consolVars>>

BatchNext ==
    \/ BatchPlan
    \/ BatchResolutionLoop
    \/ BatchStateLoop
    \/ BatchTaskStart
    \/ BatchPresentDone
    \/ BatchStateDone
    \/ BatchFetchOk
    \/ BatchFetchFail
    \/ BatchFetchExhausted
    \/ BatchTaskSaved
    \/ BatchTaskSaveRaises
    \/ BatchTaskFailed

\* ------------------------------------------------------------------------
\* Entity consolidation: process_resolution_files.py, pure parts
\* ------------------------------------------------------------------------
\* base.split('_'): the fields of the name; the last one carries the extension
SplitName(name) == name.parts

\* glob 'mapa-dados_*_*.json' on the data directory itself (not on sub-directories)
MatchesIndicatorGlob(name) ==
    /\ name.ext = "json"
    /\ Len(name.parts) >= 3
    /\ name.parts[1] = "mapa-dados"

\* glob 'future_trends_*_*.json' on the data directory itself
MatchesFutureGlob(name) ==
    /\ name.ext = "json"
    /\ Len(name.parts) >= 4
    /\ name.parts[1] = "future"
    /\ name.parts[2] = "trends"

\* glob.glob: the matching entries of the directory, in the directory's listing order
GlobIndicator(dir, order) ==
    SelectSeq(order, LAMBDA n : n \in DOMAIN dir /\ MatchesIndicatorGlob(n))
GlobFuture(dir, order) ==
    SelectSeq(order, LAMBDA n : n \in DOMAIN dir /\ MatchesFutureGlob(n))

\* resolution_names.get(resolution, resolution)
EntityType(resolution) ==
    CASE resolution = "municipio" -> "city"
      [] resolution = "microrregiao" -> "microregion"
      [] resolution = "mesorregiao" -> "mesoregion"
      [] resolution = "estado" -> "state"
      [] resolution = "regiao" -> "region"
      [] OTHER -> resolution

\* str(x) of a scalar: scalars are kept as their str() image, None as "None"
Str(x) == x

\* a or b or c on scalars: the first that is neither None nor empty, else the last
FirstTruthy(a, b) == IF a # Null /\ a # "" THEN a ELSE b

\* load_json(path) raises on a file that is not a JSON document; iterating the
\* records of a document that is not an array of objects raises as well
LoadRecordsRaises(body) == body.t # "list"

\* load_json(path) of a future-trend file raises on a file that is not JSON
LoadTrendRaises(body) == body.t = "malformed"

\* index (0 when absent) of the record of (resolution, state_code, entity_id)
RECURSIVE FindEntity(_, _, _, _, _)
FindEntity(ents, r, st, e, i) ==
    IF i > Len(ents) THEN 0
    ELSE IF ents[i].resolution = r /\ ents[i].state_code = st /\ ents[i].entity_id = e
         THEN i
         ELSE FindEntity(ents, r, st, e, i + 1)

\* the new record of lines 70-75
NewEntity(r, st, rec) ==
    [resolution |-> r, state_code |-> st, entity_id |-> Str(rec.id),
     data |-> [id |-> rec.id,
               name |-> FirstTruthy(rec.name, FirstTruthy(rec.nome, Str(rec.id))),
               geocod_ibge |-> rec.geocod_ibge,
               indicators |-> <<>>]]

\* indicator_entry of lines 78-81: the fields of rec but id/name/nome, then
\* indicator_id, year and an empty future_trends
IndicatorEntry(rec) ==
    [geocod_ibge |-> rec.geocod_ibge,
     value |-> rec.value,
     indicator_id |-> FirstTruthy(rec.indicator_id, Null),
     year |-> FirstTruthy(rec.year, Null),
     future_trends |-> <<>>]

\* body of "for rec in records" for one rec
IngestRecordReplacing(ents, r, st, rec) ==
    IF Str(rec.id) = "" THEN ents
    ELSE LET known == FindEntity(ents, r, st, Str(rec.id), 1)
             withEnt == IF known = 0 THEN Append(ents, NewEntity(r, st, rec)) ELSE ents
             at == IF known = 0 THEN Len(withEnt) ELSE known
             new == IndicatorEntry(rec)
             old == withEnt[at].data.indicators
         IN [withEnt EXCEPT ![at].data.indicators =
                IF \E j \in 1..Len(old) : old[j].indicator_id = new.indicator_id
                THEN [j \in 1..Len(old) |->
                        IF old[j].indicator_id = new.indicator_id THEN new ELSE old[j]]
                ELSE Append(old, new)]
IngestRecord(ents, r, st, rec) ==
    IF Str(rec.id) = "" THEN ents
    ELSE LET known == FindEntity(ents, r, st, Str(rec.id), 1)
             withEnt == IF known = 0 THEN Append(ents, NewEntity(r, st, rec)) ELSE ents
             at == IF known = 0 THEN Len(withEnt) ELSE known
         IN [withEnt EXCEPT ![at].data.indicators =
                Append(@, IndicatorEntry(rec))]

RECURSIVE IngestRecords(_, _, _, _, _)
IngestRecords(ents, r, st, recs, i) ==
    IF i > Len(recs) THEN ents
    ELSE IngestRecords(IngestRecord(ents, r, st, recs[i]), r, st, recs, i + 1)

\* if resolution not in resolution_entity_map: resolution_entity_map[resolution] = {}
WithKey(keys, k) == IF k \in Range(keys) THEN keys ELSE Append(keys, k)

\* the last record of data with this id and a value, 0 when there is none
RECURSIVE LastData(_, _, _)
LastData(data, e, i) ==
    IF i = 0 THEN 0
    ELSE IF Str(data[i].id) = e /\ Str(data[i].id) # "" /\ data[i].value # Null
         THEN i
         ELSE LastData(data, e, i - 1)

\* the lookup entries one future-trend document adds (lines 104-120)
TrendEntries(r, st, ind, year, body) ==
    IF body.t # "trend" \/ year \notin DOMAIN body.years THEN <<>>
    ELSE LET scen == body.years[year]
             ok == {k \in UNION {{<<sc, i>> : i \in 1..Len(scen[sc].data)} :
                                    sc \in DOMAIN scen} :
                        /\ Str(scen[k[1]].data[k[2]].id) # ""
                        /\ scen[k[1]].data[k[2]].value # Null}
         IN [key \in {<<r, st, Str(scen[k[1]].data[k[2]].id), ind, year, k[1]>> : k \in ok}
               |-> LET obj == scen[key[6]]
                       at == LastData(obj.data, key[3], Len(obj.data))
                   IN [value |-> obj.data[at].value,
                       valuecolor |-> obj.valuecolor,
                       valuelabel |-> obj.valuelabel]]

\* future_lookup[key] = ... for every key of add: a later entry replaces an earlier one
OverlayKeepingFirst(old, add) ==
    [k \in (DOMAIN old) \cup (DOMAIN add) |-> IF k \in DOMAIN old THEN old[k] ELSE add[k]]
Overlay(old, add) ==
    [k \in (DOMAIN old) \cup (DOMAIN add) |-> IF k \in DOMAIN add THEN add[k] ELSE old[k]]

\* the scenario priority list of the merge
ScenarioOrder == <<"verylow", "low", "mid", "high", "veryhigh">>
FutureYears == <<"2030", "2050">>

\* the scenario, as a position of the priority list from i on, whose lookup entry
\* the merge takes; 0 when none has one. LastScenario takes the last in priority
\* order, FirstScenario the first, as the loop with its break does
LastScenario(lookup, r, st, e, ind, y, i) ==
    LET has == {k \in i..Len(ScenarioOrder) :
                   <<r, st, e, ind, y, ScenarioOrder[k]>> \in DOMAIN lookup}
    IN IF has = {} THEN 0 ELSE CHOOSE k \in has : \A m \in has : m <= k
RECURSIVE FirstScenario(_, _, _, _, _, _, _)
FirstScenario(lookup, r, st, e, ind, y, i) ==
    IF i > Len(ScenarioOrder) THEN 0
    ELSE IF <<r, st, e, ind, y, ScenarioOrder[i]>> \in DOMAIN lookup THEN i
         ELSE FirstScenario(lookup, r, st, e, ind, y, i + 1)

\* future_trends of one indicator entry after the merge (lines 138-145)
MergedTrendsAnyIndicator(lookup, r, st, e, entry) ==
    LET keysOf(y) == {k \in DOMAIN lookup :
                        k[1] = r /\ k[2] = st /\ k[3] = e /\ k[5] = y}
        found == {y \in Range(FutureYears) : keysOf(y) # {}}
    IN Overlay(entry.future_trends,
               [y \in found |-> lookup[CHOOSE k \in keysOf(y) : TRUE]])
MergedTrends(lookup, r, st, e, entry) ==
    LET ind == Str(entry.indicator_id)
        found == {y \in Range(FutureYears) : FirstScenario(lookup, r, st, e, ind, y, 1) # 0}
    IN Overlay(entry.future_trends,
               [y \in found |->
                  lookup[<<r, st, e, ind, y,
                           ScenarioOrder[FirstScenario(lookup, r, st, e, ind, y, 1)]>>]])

\* phase 3 on every entity record
Merge(ents, lookup) ==
    [n \in 1..Len(ents) |->
        [ents[n] EXCEPT !.data.indicators =
            [j \in 1..Len(@) |->
                [@[j] EXCEPT !.future_trends =
                    MergedTrends(lookup, ents[n].resolution, ents[n].state_code,
                                 ents[n].entity_id, ents[n].data.indicators[j])]]]]

\* the first occurrences of a sequence, in order
RECURSIVE Dedup(_)
Dedup(seq) ==
    IF seq = <<>> THEN <<>>
    ELSE LET init == Dedup(SubSeq(seq, 1, Len(seq) - 1))
         IN IF seq[Len(seq)] \in Range(init) THEN init ELSE Append(init, seq[Len(seq)])

RECURSIVE Flatten(_)
Flatten(seqs) == IF seqs = <<>> THEN <<>> ELSE Head(seqs) \o Flatten(Tail(seqs))

\* iteration order of the nested dict: resolutions, then states, then entities,
\* each in insertion order
WriteOrder(keys, ents) ==
    Flatten([a \in 1..Len(keys) |->
        LET ofRes == SelectSeq(ents, LAMBDA x : x.resolution = keys[a])
            sts == Dedup([b \in 1..Len(ofRes) |-> ofRes[b].state_code])
        IN Flatten([c \in 1..Len(sts) |->
                      SelectSeq(ofRes, LAMBDA x : x.state_code = sts[c])])])

\* geocode = entity_data.get("geocod_ibge", entity_code): the key is always there
Geocode(ent) == ent.data.geocod_ibge

\* out_dir / out_filename of an entity record
OutPath(ent) ==
    [dir |-> IF ent.resolution = "regiao" THEN "BR" ELSE ent.state_code,
     type |-> EntityType(ent.resolution),
     geocode |-> Geocode(ent)]

\* entity_filelist[resolution][entity_code] = {...}
FilelistEntry(ent) ==
    [resolution |-> ent.resolution, entity_code |-> ent.entity_id,
     name |-> ent.data.name, state |-> ent.state_code, file |-> OutPath(ent),
     geocod_ibge |-> Geocode(ent)]

RECURSIVE FindFilelist(_, _, _, _)
FindFilelist(fl, r, e, i) ==
    IF i > Len(fl) THEN 0
    ELSE IF fl[i].resolution = r /\ fl[i].entity_code = e THEN i
         ELSE FindFilelist(fl, r, e, i + 1)

WithFilelistEntry(fl, entry) ==
    LET at == FindFilelist(fl, entry.resolution, entry.entity_code, 1)
    IN IF at = 0 THEN Append(fl, entry) ELSE [fl EXCEPT ![at] = entry]

\* save_json(entity_data, out_path): the file is rewritten with the record
WrittenEntityKeepingExisting(files, path, data) ==
    IF path \in DOMAIN files THEN files ELSE Put(files, path, data)
WrittenEntity(files, path, data) == Put(files, path, data)

\* the document saved as entity_filelist.json
ManifestDocAccumulating(keys, fl) ==
    [t |-> "manifest", resolutions |-> keys,
     entries |-> IF manifestFile.t = "manifest" THEN manifestFile.entries \o fl ELSE fl]
ManifestDoc(keys, fl) == [t |-> "manifest", resolutions |-> keys, entries |-> fl]

\* os.rename(f, dest) that succeeds: the file leaves the data directory and is in downloads
RenamedCopying(src, dst, f) == [src |-> src, dst |-> Put(dst, f, src[f])]
Renamed(src, dst, f) ==
    [src |-> [n \in (DOMAIN src) \ {f} |-> src[n]], dst |-> Put(dst, f, src[f])]

\* ------------------------------------------------------------------------
\* Entity consolidation: main()
\* ------------------------------------------------------------------------
NoOutput == [valid |-> FALSE, inputs |-> <<>>, entityFiles |-> <<>>, manifest |-> None]

AllFiles == indicator_files \o future_trend_files

\* entity_filelist = {}: the filelist a run starts from
FilelistCarriedOver ==
    IF manifestFile.t = "manifest" THEN manifestFile.entries ELSE <<>>
EmptyFilelist == <<>>

\* main() up to the first loop: the two globs and the empty maps
ConsolStart ==
    /\ cpc \in {"idle", "done", "crashed"}
    /\ runs < MaxRuns
    /\ runs' = runs + 1
    /\ indicator_files' = GlobIndicator(dataDir, dirOrder)
    /\ future_trend_files' = GlobFuture(dataDir, dirOrder)
    /\ resKeys' = <<>>
    /\ entities' = <<>>
    /\ future_lookup' = <<>>
    /\ entity_filelist' = EmptyFilelist
    /\ fi' = 0
    /\ wi' = 0
    /\ mi' = 0
    /\ moved_files' = 0
    /\ cerr' = "none"
    /\ moveFailed' = {}
    /\ inputs' = [n \in Range(indicator_files') \cup Range(future_trend_files')
                    |-> dataDir[n]]
    /\ repeating' = (cpc = "crashed" /\ cerr # "final_print")
    /\ base' = IF repeating' THEN base ELSE entityFiles
    /\ cpc' = "present"
    /\ UNCHANGED <<dirOrder, downloads, entityFiles, manifestFile, prevOut>>
    /\ UNCHANGED <<retryVars, batchVars, dirVars>>

\* phase 1, one present-value file: skipped on a short name, else its records are ingested
ConsolLoadPresent ==
    /\ cpc = "present"
    /\ fi < Len(indicator_files)
    /\ LET f == indicator_files[fi + 1]
           parts == SplitName(f)
       IN IF Len(parts) < 4
          THEN UNCHANGED <<resKeys, entities>>
          ELSE /\ ~LoadRecordsRaises(dataDir[f])
               /\ resKeys' = WithKey(resKeys, parts[2])
               /\ entities' = IngestRecords(entities, parts[2], parts[3],
                                            dataDir[f].recs, 1)
    /\ fi' = fi + 1
    /\ UNCHANGED <<cpc, dirOrder, indicator_files, future_trend_files, future_lookup,
                   entity_filelist, wi, mi, moved_files, downloads, entityFiles,
                   manifestFile, runs, cerr, moveFailed, inputs, base, repeating, prevOut>>
    /\ UNCHANGED <<retryVars, batchVars, dirVars>>

\* phase 1, load_json (or the iteration of its result) raises: nothing catches it
ConsolLoadPresentRaises ==
    /\ cpc = "present"
    /\ fi < Len(indicator_files)
    /\ Len(SplitName(indicator_files[fi + 1])) >= 4
    /\ LoadRecordsRaises(dataDir[indicator_files[fi + 1]])
    /\ cpc' = "crashed"
    /\ cerr' = "load_json"
    /\ UNCHANGED <<dirOrder, indicator_files, future_trend_files, fi, resKeys, entities,
                   future_lookup, entity_filelist, wi, mi, moved_files, downloads,
                   entityFiles, manifestFile, runs, moveFailed, inputs, base, repeating, prevOut>>
    /\ UNCHANGED <<retryVars, batchVars, dirVars>>

\* end of the phase 1 loop
ConsolPresentDone ==
    /\ cpc = "present"
    /\ fi = Len(indicator_files)
    /\ cpc' = "future"
    /\ fi' = 0
    /\ UNCHANGED <<dirOrder, indicator_files, future_trend_files, resKeys, entities,
                   future_lookup, entity_filelist, wi, mi, moved_files, downloads,
                   entityFiles, manifestFile, runs, cerr, moveFailed, inputs, base,
                   repeating, prevOut>>
    /\ UNCHANGED <<retryVars, batchVars, dirVars>>

\* phase 2, one future-trend file: skipped on a short name, else indexed
ConsolIndexFuture ==
    /\ cpc = "future"
    /\ fi < Len(future_trend_files)
    /\ LET f == future_trend_files[fi + 1]
           parts == SplitName(f)
       IN IF Len(parts) < 5
          THEN UNCHANGED future_lookup
          ELSE /\ Len(parts) >= 6
               /\ ~LoadTrendRaises(dataDir[f])
               /\ future_lookup' =
                     Overlay(future_lookup,
                             TrendEntries(parts[3], parts[4], parts[5], parts[6],
                                          dataDir[f]))
    /\ fi' = fi + 1
    /\ UNCHANGED <<cpc, dirOrder, indicator_files, future_trend_files, resKeys, entities,
                   entity_filelist, wi, mi, moved_files, downloads, entityFiles,
                   manifestFile, runs, cerr, moveFailed, inputs, base, repeating, prevOut>>
    /\ UNCHANGED <<retryVars, batchVars, dirVars>>

\* phase 2, parts[5] of a five-field name or load_json raises: nothing catches it
ConsolIndexFutureRaises ==
    /\ cpc = "future"
    /\ fi < Len(future_trend_files)
    /\ LET f == future_trend_files[fi + 1]
           parts == SplitName(f)
       IN /\ Len(parts) >= 5
          /\ IF Len(parts) < 6 THEN cerr' = "IndexError"
             ELSE LoadTrendRaises(dataDir[f]) /\ cerr' = "load_json"
    /\ cpc' = "crashed"
    /\ UNCHANGED <<dirOrder, indicator_files, future_trend_files, fi, resKeys, entities,
                   future_lookup, entity_filelist, wi, mi, moved_files, downloads,
                   entityFiles, manifestFile, runs, moveFailed, inputs, base, repeating, prevOut>>
    /\ UNCHANGED <<retryVars, batchVars, dirVars>>

\* end of the phase 2 loop, then phase 3: the merge
ConsolMerge ==
    /\ cpc = "future"
    /\ fi = Len(future_trend_files)
    /\ entities' = Merge(entities, future_lookup)
    /\ cpc' = "write"
    /\ wi' = 0
    /\ UNCHANGED <<dirOrder, indicator_files, future_trend_files, fi, resKeys,
                   future_lookup, entity_filelist, mi, moved_files, downloads,
                   entityFiles, manifestFile, runs, cerr, moveFailed, inputs, base,
                   repeating, prevOut>>
    /\ UNCHANGED <<retryVars, batchVars, dirVars>>

\* phase 4, one entity record: its file and its filelist entry
ConsolWriteEntity ==
    /\ cpc = "write"
    /\ wi < Len(entities)
    /\ LET ent == WriteOrder(resKeys, entities)[wi + 1]
       IN /\ entityFiles' = WrittenEntity(entityFiles, OutPath(ent), ent.data)
          /\ entity_filelist' = WithFilelistEntry(entity_filelist, FilelistEntry(ent))
    /\ wi' = wi + 1
    /\ UNCHANGED <<cpc, dirOrder, indicator_files, future_trend_files, fi, resKeys,
                   entities, future_lookup, mi, moved_files, downloads, manifestFile,
                   runs, cerr, moveFailed, inputs, base, repeating, prevOut>>
    /\ UNCHANGED <<retryVars, batchVars, dirVars>>

\* phase 4, save_json of an entity record raises
ConsolWriteEntityRaises ==
    /\ cpc = "write"
    /\ ioBudget > 0
    /\ ioBudget' = ioBudget - 1
    /\ wi < Len(entities)
    /\ entityFiles' \in SaveFailures(entityFiles,
                                     OutPath(WriteOrder(resKeys, entities)[wi + 1]))
    /\ cpc' = "crashed"
    /\ cerr' = "save_json"
    /\ UNCHANGED <<dirOrder, indicator_files, future_trend_files, fi, resKeys, entities,
                   future_lookup, entity_filelist, wi, mi, moved_files, downloads,
                   manifestFile, runs, moveFailed, inputs, base, repeating, prevOut>>
    /\ UNCHANGED <<retryVars, batchVars, dataDir, brDir>>

\* where main() goes once every entity file is written: the manifest, then the moves
AfterManifest == "archive"

\* end of the write loop: save_json(entity_filelist, entity_filelist.json)
ConsolWriteManifest ==
    /\ cpc = "write"
    /\ wi = Len(entities)
    /\ manifestFile' = ManifestDoc(resKeys, entity_filelist)
    /\ cpc' = AfterManifest
    /\ mi' = 0
    /\ UNCHANGED <<dirOrder, indicator_files, future_trend_files, fi, resKeys, entities,
                   future_lookup, entity_filelist, wi, moved_files, downloads,
                   entityFiles, runs, cerr, moveFailed, inputs, base, repeating, prevOut>>
    /\ UNCHANGED <<retryVars, batchVars, dirVars>>

\* save_json of the manifest raises
ConsolWriteManifestRaises ==
    /\ cpc = "write"
    /\ ioBudget > 0
    /\ ioBudget' = ioBudget - 1
    /\ wi = Len(entities)
    /\ manifestFile' \in {manifestFile, Malformed}
    /\ cpc' = "crashed"
    /\ cerr' = "save_json"
    /\ UNCHANGED <<dirOrder, indicator_files, future_trend_files, fi, resKeys, entities,
                   future_lookup, entity_filelist, wi, mi, moved_files, downloads,
                   entityFiles, runs, moveFailed, inputs, base, repeating, prevOut>>
    /\ UNCHANGED <<retryVars, batchVars, dataDir, brDir>>

\* archiving, one file: os.rename succeeds
ConsolMove ==
    /\ cpc = "archive"
    /\ mi < Len(AllFiles)
    /\ LET r == Renamed(dataDir, downloads, AllFiles[mi + 1])
       IN /\ dataDir' = r.src
          /\ downloads' = r.dst
    /\ moved_files' = moved_files + 1
    /\ mi' = mi + 1
    /\ UNCHANGED <<cpc, dirOrder, indicator_files, future_trend_files, fi, resKeys,
                   entities, future_lookup, entity_filelist, wi, entityFiles,
                   manifestFile, runs, cerr, moveFailed, inputs, base, repeating, prevOut>>
    /\ UNCHANGED <<retryVars, batchVars, brDir, ioBudget>>

\* the archiving loop after an os.rename that raised: the except clause prints
\* the warning and the loop goes on with the next of the n files
AfterFailedMoveStop(i, n) == n
AfterFailedMove(i, n) == i + 1

\* archiving, one file: os.rename raises, a warning is printed
ConsolMoveFails ==
    /\ cpc = "archive"
    /\ ioBudget > 0
    /\ ioBudget' = ioBudget - 1
    /\ mi < Len(AllFiles)
    /\ moveFailed' = moveFailed \cup {AllFiles[mi + 1]}
    /\ mi' = AfterFailedMove(mi, Len(AllFiles))
    /\ UNCHANGED <<cpc, dirOrder, indicator_files, future_trend_files, fi, resKeys,
                   entities, future_lookup, entity_filelist, wi, moved_files, downloads,
                   entityFiles, manifestFile, runs, cerr, inputs, base, repeating, prevOut>>
    /\ UNCHANGED <<retryVars, batchVars, dataDir, brDir>>

\* end of the archiving loop: the closing messages, which print entity_type
ConsolFinish ==
    /\ cpc = "archive"
    /\ mi = Len(AllFiles)
    /\ resKeys # <<>>
    /\ cpc' = "done"
    /\ prevOut' = [valid |-> TRUE, inputs |-> inputs, entityFiles |-> entityFiles,
                   manifest |-> manifestFile]
    /\ UNCHANGED <<dirOrder, indicator_files, future_trend_files, fi, resKeys, entities,
                   future_lookup, entity_filelist, wi, mi, moved_files, downloads,
                   entityFiles, manifestFile, runs, cerr, moveFailed, inputs, base,
                   repeating>>
    /\ UNCHANGED <<retryVars, batchVars, dirVars>>

\* end of the archiving loop when no resolution was ingested: entity_type was never
\* bound and the closing print raises UnboundLocalError
ConsolFinishRaises ==
    /\ cpc = "archive"
    /\ mi = Len(AllFiles)
    /\ resKeys = <<>>
    /\ cpc' = "crashed"
    /\ cerr' = "final_print"
    /\ UNCHANGED <<dirOrder, indicator_files, future_trend_files, fi, resKeys, entities,
                   future_lookup, entity_filelist, wi, mi, moved_files, downloads,
                   entityFiles, manifestFile, runs, moveFailed, inputs, base, repeating,
                   prevOut>>
    /\ UNCHANGED <<retryVars, batchVars, dirVars>>

ConsolSteps ==
    \/ ConsolLoadPresent
    \/ ConsolLoadPresentRaises
    \/ ConsolPresentDone
    \/ ConsolIndexFuture
    \/ ConsolIndexFutureRaises
    \/ ConsolMerge
    \/ ConsolWriteEntity
    \/ ConsolWriteEntityRaises
    \/ ConsolWriteManifest
    \/ ConsolWriteManifestRaises
    \/ ConsolMove
    \/ ConsolMoveFails
    \/ ConsolFinish
    \/ ConsolFinishRaises

ConsolNext == ConsolStart \/ ConsolSteps

\* ------------------------------------------------------------------------
\* Stand-alone runs of fetch_with_retries
\* ------------------------------------------------------------------------
RetryIdle ==
    /\ fpc = "idle"
    /\ attempt = 0
    /\ max_retries = 3
    /\ backoff = 2
    /\ outcomes = <<>>
    /\ waits = <<>>
    /\ ret = None

BatchIdle ==
    /\ bpc = "off"
    /\ cfg_state = <<>>
    /\ cfg_resolution = <<>>
    /\ mapa_dados_file = <<>>
    /\ trends_file = NoFile
    /\ debug = FALSE
    /\ states = <<>>
    /\ resolutions = <<>>
    /\ overrides = 0
    /\ total_requests = 0
    /\ total_success = 0
    /\ total_fail = 0
    /\ global_progress = 0
    /\ success = 0
    /\ fail = 0
    /\ ri = 0
    /\ si = 0
    /\ kind = "present"
    /\ ii = 0
    /\ events = <<>>
    /\ failBudget = 0
    /\ flaky = {}

DirsEmpty ==
    /\ dataDir = EmptyDir
    /\ brDir = EmptyDir

ConsolIdle ==
    /\ cpc = "off"
    /\ dirOrder = <<>>
    /\ indicator_files = <<>>
    /\ future_trend_files = <<>>
    /\ fi = 0
    /\ resKeys = <<>>
    /\ entities = <<>>
    /\ future_lookup = <<>>
    /\ entity_filelist = <<>>
    /\ wi = 0
    /\ mi = 0
    /\ moved_files = 0
    /\ downloads = EmptyDir
    /\ entityFiles = EmptyDir
    /\ manifestFile = None
    /\ runs = 0
    /\ cerr = "none"
    /\ moveFailed = {}
    /\ inputs = <<>>
    /\ base = EmptyDir
    /\ repeating = FALSE
    /\ prevOut = NoOutput

RetryInit ==
    /\ fpc = "loop"
    /\ attempt = 0
    /\ max_retries \in 0..MaxRetriesArg
    /\ backoff \in 1..MaxBackoffArg
    /\ outcomes = <<>>
    /\ waits = <<>>
    /\ ret = None
    /\ BatchIdle
    /\ DirsEmpty
    /\ ioBudget = 0
    /\ ConsolIdle

RetryOk == (\E r \in Responses : FetchAttemptOk(r)) /\ UNCHANGED <<batchVars, dirVars, consolVars>>
RetryFail == FetchAttemptFail /\ UNCHANGED <<batchVars, dirVars, consolVars>>
RetryExhausted == FetchExhausted /\ UNCHANGED <<batchVars, dirVars, consolVars>>

RetryNext == RetryOk \/ RetryFail \/ RetryExhausted

SpecRetry == RetryInit /\ [][RetryNext]_vars

\* ------------------------------------------------------------------------
\* Batch runs on configurations without the regional resolution
\* ------------------------------------------------------------------------
PresentPairs == << <<"2", "2020">>, <<"5", "2020">> >>
TrendPairs == << <<"2", "2030">> >>

Prefixes(seq) == {SubSeq(seq, 1, n) : n \in 0..Len(seq)}

BatchStart ==
    /\ bpc = "start"
    /\ states = <<>>
    /\ resolutions = <<>>
    /\ overrides = 0
    /\ total_requests = 0
    /\ total_success = 0
    /\ total_fail = 0
    /\ global_progress = 0
    /\ success = 0
    /\ fail = 0
    /\ ri = 0
    /\ si = 0
    /\ kind = "present"
    /\ ii = 0
    /\ events = <<>>

BatchInit ==
    /\ cfg_state \in {<<"PR">>, <<"PR", "SP">>}
    /\ cfg_resolution \in {<<"municipio">>, <<"municipio", "estado">>}
    /\ debug \in BOOLEAN
    /\ mapa_dados_file \in Prefixes(PresentPairs)
    /\ trends_file \in {PairsFile(p) : p \in Prefixes(TrendPairs)} \cup {NoFile}
    /\ BatchStart
    /\ failBudget = MaxFailedCalls
    /\ flaky = Range(get_all_brazilian_states)
    /\ RetryIdle
    /\ DirsEmpty
    /\ ioBudget = 1
    /\ ConsolIdle

SpecBatch == BatchInit /\ [][BatchNext]_vars

\* ------------------------------------------------------------------------
\* Consolidation runs on a data directory holding up to MaxFiles fragments
\* ------------------------------------------------------------------------
Rec(id, name, geocode, ind, year, value) ==
    [id |-> id, name |-> name, nome |-> Null, geocod_ibge |-> geocode,
     indicator_id |-> ind, year |-> year, value |-> value]

ScenarioObj(data) == [valuecolor |-> "#ffa500", valuelabel |-> "Medio", data |-> data]

\* candidate fragment files: name and content
Catalogue ==
    { [name |-> SummaryPath("municipio", "PR", "2", "2020"),
       body |-> PresentBody(<< Rec("4106902", "Curitiba", "4106902", "2", "2020", "3.5") >>)],
      [name |-> SummaryPath("municipio", "PR", "2", "2020"),
       body |-> PresentBody(<< Rec("4106902", Null, Null, Null, Null, "3.5") >>)],
      [name |-> SummaryPath("municipio", "PR", "2", "2020"),
       body |-> Malformed],
      [name |-> SummaryPath("municipio", "PR", "5", "2020"),
       body |-> PresentBody(<< Rec("4106902", "Curitiba", "4106902", "5", "2020", "1.0"),
                               Rec("4100400", Null, Null, "5", "2020", "2.0") >>)],
      [name |-> SummaryPath("estado", "PR", "2", "2020"),
       body |-> PresentBody(<< Rec("41", "Parana", Null, "2", "2020", "0.7") >>)],
      [name |-> FuturePath("municipio", "PR", "2", "2030"),
       body |-> TrendBody([y \in {"2030"} |->
                    [sc \in {"mid"} |->
                        ScenarioObj(<< [id |-> "4106902", value |-> "4.2"] >>)]])],
      [name |-> FuturePath("municipio", "PR", "2", "2030"),
       body |-> Malformed],
      [name |-> FuturePath("municipio", "PR", "5", "2050"),
       body |-> TrendBody([y \in {"2050"} |->
                    [sc \in {"low", "high"} |->
                        IF sc = "low"
                        THEN ScenarioObj(<< [id |-> "4100400", value |-> "2.5"] >>)
                        ELSE ScenarioObj(<< [id |-> "4100400", value |-> "2.9"],
                                            [id |-> "4106902", value |-> "1.9"] >>)]])],
      [name |-> DebugPath(FuturePath("municipio", "PR", "2", "2030")),
       body |-> TrendBody([y \in {"2030"} |->
                    [sc \in {"mid"} |->
                        ScenarioObj(<< [id |-> "4106902", value |-> "4.8"] >>)]])],
      [name |-> SummaryPath("municipio", "PR", "2", "2015"),
       body |-> PresentBody(<< Rec("4106902", "Curitiba", "4106902", "2", "2015", "3.1") >>)],
      [name |-> FileName(<<"mapa-dados", "PR", "2020">>),
       body |-> PresentBody(<< Rec("4106902", "Curitiba", "4106902", "2", "2020", "3.5") >>)],
      [name |-> FileName(<<"future", "trends", "PR", "2", "2030">>),
       body |-> TrendBody([y \in {"2030"} |->
                    [sc \in {"mid"} |->
                        ScenarioObj(<< [id |-> "4106902", value |-> "4.2"] >>)]])],
      [name |-> FuturePath("municipio", "PR", "2", "2050"),
       body |-> TrendBody([y \in {"2030"} |->
                    [sc \in {"mid"} |->
                        ScenarioObj(<< [id |-> "4106902", value |-> "4.2"] >>)]])] }

\* the directories made of catalogue files: at most MaxFiles entries, one per name
Directories ==
    {S \in SUBSET Catalogue :
        /\ Cardinality(S) <= MaxFiles
        /\ \A a, b \in S : a.name = b.name => a = b}

DirOf(S) == [n \in {x.name : x \in S} |-> (CHOOSE x \in S : x.name = n).body]

RECURSIVE Perms(_)
Perms(S) ==
    IF S = {} THEN {<<>>}
    ELSE UNION {{<<x>> \o q : q \in Perms(S \ {x})} : x \in S}

\* the listing orders of a directory (only the order among the files of one glob matters)
ListingOrders(names) ==
    {a \o b : a \in Perms({n \in names : MatchesIndicatorGlob(n)}),
              b \in Perms({n \in names : ~MatchesIndicatorGlob(n)})}

ConsolInit ==
    /\ \E S \in Directories :
          /\ dataDir = DirOf(S)
          /\ dirOrder \in ListingOrders(DOMAIN DirOf(S))
    /\ brDir = EmptyDir
    /\ ioBudget = MaxIoFaults
    /\ cpc = "idle"
    /\ indicator_files = <<>>
    /\ future_trend_files = <<>>
    /\ fi = 0
    /\ resKeys = <<>>
    /\ entities = <<>>
    /\ future_lookup = <<>>
    /\ entity_filelist = <<>>
    /\ wi = 0
    /\ mi = 0
    /\ moved_files = 0
    /\ downloads = EmptyDir
    /\ entityFiles = EmptyDir
    /\ manifestFile = None
    /\ runs = 0
    /\ cerr = "none"
    /\ moveFailed = {}
    /\ inputs = <<>>
    /\ base = EmptyDir
    /\ repeating = FALSE
    /\ prevOut = NoOutput
    /\ RetryIdle
    /\ BatchIdle

SpecConsol == ConsolInit /\ [][ConsolNext]_vars

\* ------------------------------------------------------------------------
\* The pipeline: one batch run on a configuration with one state,
\* then the next consolidation run on what the batch left
\* ------------------------------------------------------------------------
\* the names one task creates: the fragment and, when debug, its raw copy
CreatedBy(path, dbg) == IF dbg THEN <<path, DebugPath(path)>> ELSE <<path>>

\* the fragment names a batch run can create, in creation order
CreationOrder(st, res, mapa, trends, dbg) ==
    Flatten([a \in 1..Len(res) |->
      Flatten([b \in 1..Len(st) |->
        Flatten([c \in 1..Len(mapa) |->
            CreatedBy(SummaryPath(res[a], st[b], mapa[c][1], mapa[c][2]), dbg)])
        \o
        Flatten([c \in 1..Len(trends) |->
            CreatedBy(FuturePath(res[a], st[b], trends[c][1], trends[c][2]), dbg)])])])

\* one kind of fault in a pipeline run: raising fetch calls for the configured
\* state, or raising file operations
PipelineInit ==
    /\ cfg_state = <<"PR">>
    /\ \/ cfg_resolution \in {<<"regiao">>, <<"municipio", "regiao">>} /\ debug = FALSE
       \/ cfg_resolution = <<"municipio">> /\ debug \in BOOLEAN
    /\ mapa_dados_file = SubSeq(PresentPairs, 1, 1)
    /\ trends_file \in {NoFile, PairsFile(TrendPairs)}
    /\ BatchStart
    /\ \/ failBudget = PipelineFaults + 2 /\ ioBudget = 0
       \/ failBudget = 0 /\ ioBudget = PipelineFaults
    /\ flaky = Range(cfg_state)
    /\ RetryIdle
    /\ DirsEmpty
    /\ cpc = "idle"
    /\ dirOrder = CreationOrder(OverriddenStates(cfg_state, cfg_resolution),
                                cfg_resolution, mapa_dados_file,
                                LoadTrends(trends_file), debug)
    /\ indicator_files = <<>>
    /\ future_trend_files = <<>>
    /\ fi = 0
    /\ resKeys = <<>>
    /\ entities = <<>>
    /\ future_lookup = <<>>
    /\ entity_filelist = <<>>
    /\ wi = 0
    /\ mi = 0
    /\ moved_files = 0
    /\ downloads = EmptyDir
    /\ entityFiles = EmptyDir
    /\ manifestFile = None
    /\ runs = 0
    /\ cerr = "none"
    /\ moveFailed = {}
    /\ inputs = <<>>
    /\ base = EmptyDir
    /\ repeating = FALSE
    /\ prevOut = NoOutput

\* the consolidation script is run once the batch process has ended
PipelineConsolStart ==
    /\ bpc \in {"done", "crashed"}
    /\ runs = 0
    /\ ConsolStart

PipelineNext == BatchNext \/ PipelineConsolStart \/ ConsolSteps

SpecPipeline == PipelineInit /\ [][PipelineNext]_vars

\* ------------------------------------------------------------------------
\* The planner alone: main() up to the resolution loop, on drawn configurations
\* ------------------------------------------------------------------------
Reversed(seq) == [i \in 1..Len(seq) |-> seq[Len(seq) + 1 - i]]

SeqsUpTo(S, n) == UNION {[1..k -> S] : k \in 0..n}

\* configured state lists: short lists (repeats and an unknown code included),
\* and the complete list as it is, reversed, with a repeat, and short of one state
StateLists ==
    SeqsUpTo({"PR", "SP", "XX"}, MaxStatesArg)
    \cup { get_all_brazilian_states,
           Reversed(get_all_brazilian_states),
           Append(get_all_brazilian_states, "PR"),
           Tail(get_all_brazilian_states) }

ResolutionLists ==
    { <<>>, <<"municipio">>, <<"regiao">>, <<"municipio", "regiao">>,
      <<"regiao", "estado">>, <<"municipio", "estado">> }

PlanInit ==
    /\ cfg_state \in StateLists
    /\ cfg_resolution \in ResolutionLists
    /\ debug = FALSE
    /\ mapa_dados_file \in Prefixes(PresentPairs)
    /\ trends_file \in {NoFile, PairsFile(TrendPairs)}
    /\ BatchStart
    /\ failBudget = 0
    /\ flaky = {}
    /\ RetryIdle
    /\ DirsEmpty
    /\ ioBudget = 0
    /\ ConsolIdle

PlanNext == BatchPlan

SpecPlan == PlanInit /\ [][PlanNext]_vars

\* ------------------------------------------------------------------------
\* Properties of fetch_with_retries
\* ------------------------------------------------------------------------
AllRaised(os) == \A i \in 1..Len(os) : os[i] = Raise

\* C1: an operation that fails on every call is, with max_retries = 3, invoked
\* exactly 3 times, None is returned, and exactly 2 backoff sleeps are taken.
C1_RetryCapTwoSleeps ==
    (fpc = "returned" /\ max_retries = 3 /\ AllRaised(outcomes))
        => (Len(outcomes) = 3 /\ ret = None /\ Len(waits) = 2)

C3_ExponentialWaits ==
    /\ \A k \in 1..Len(waits) : waits[k] = Pow(backoff, k)
    /\ backoff = 2 =>
          \A k \in 1..Len(waits) : k <= 3 => waits[k] = <<2, 4, 8>>[k]
    /\ Len(waits) = attempt

C3_Witness ==
    backoff = 2 /\ Len(waits) >= 3 /\ fpc = "returned"

\* ------------------------------------------------------------------------
\* Properties of the batch run
\* ------------------------------------------------------------------------
CountEv(evs, e) == Cardinality({i \in 1..Len(evs) : evs[i].ev = e})

TasksStarted == {events[i].task : i \in {j \in 1..Len(events) : events[j].ev = "task"}}

\* the planned tasks: every resolution, every state, every present and future pair
PlannedTasks ==
    {[kind |-> "present", resolution |-> r, state |-> s,
      indicator_id |-> p[1], year |-> p[2]] :
        r \in Range(resolutions), s \in Range(states), p \in Range(mapa_dados_file)}
    \cup
    {[kind |-> "future", resolution |-> r, state |-> s,
      indicator_id |-> p[1], year |-> p[2]] :
        r \in Range(resolutions), s \in Range(states),
        p \in Range(LoadTrends(trends_file))}

\* C4: whatever fetches end in Failure, a finished batch has attempted every
\* planned task exactly once and total_success + total_fail is the planned total
\* |states| x |resolutions| x (|present pairs| + |future pairs|); every Failure is
\* counted as failed, and a Failure never ends the run.
C4_EveryTaskCounted ==
    /\ bpc = "done" =>
          /\ total_success + total_fail =
                Len(states) * Len(resolutions)
                    * (Len(mapa_dados_file) + Len(LoadTrends(trends_file)))
          /\ total_success + total_fail = total_requests
          /\ CountEv(events, "task") = total_requests
          /\ TasksStarted = PlannedTasks
          /\ Cardinality(PlannedTasks) = total_requests
          /\ total_fail = CountEv(events, "failure")
          /\ total_success = CountEv(events, "saved")
    /\ bpc = "crashed" => ret # None

C4_Witness ==
    bpc = "done" /\ total_fail >= 2 /\ total_success >= 2 /\ Len(resolutions) = 2

\* C5: an error while writing the fragment of one task ends that task only; the
\* batch goes on with the next planned task.
C5_WriteErrorKeepsBatchRunning ==
    CountEv(events, "write_error") > 0 => bpc # "crashed"

\* the planned tasks in order: resolutions outermost, then states, then the
\* present pairs in list order followed by the future pairs in list order
PlannedOrder ==
    Flatten([a \in 1..Len(resolutions) |->
      Flatten([b \in 1..Len(states) |->
        [c \in 1..Len(mapa_dados_file) |->
            [kind |-> "present", resolution |-> resolutions[a], state |-> states[b],
             indicator_id |-> mapa_dados_file[c][1], year |-> mapa_dados_file[c][2]]]
        \o
        [c \in 1..Len(LoadTrends(trends_file)) |->
            [kind |-> "future", resolution |-> resolutions[a], state |-> states[b],
             indicator_id |-> LoadTrends(trends_file)[c][1],
             year |-> LoadTrends(trends_file)[c][2]]]])])

TaskEvents == SelectSeq(events, LAMBDA e : e.ev = "task")

\* C19: the tasks run in the planned order (resolution, then state, then present
\* pairs, then future pairs, each list in its order), one at a time: a task starts
\* only when the previous one has ended, and the fragments on disk are those of
\* tasks already started.
C19_TasksInPlannedOrder ==
    bpc \notin {"off", "start"} =>
        LET planned == PlannedOrder
            started == TaskEvents
            written == {TaskPath(started[i].task) : i \in 1..Len(started)}
        IN /\ Len(started) <= Len(planned)
           /\ \A i \in 1..Len(started) : started[i].task = planned[i]
           /\ \A i \in 2..Len(events) :
                 events[i].ev = "task" => events[i - 1].ev = "delay"
           /\ \A n \in (DOMAIN dataDir) \cup (DOMAIN brDir) :
                 n \in written \/ \E p \in written : n = DebugPath(p)
           /\ bpc = "done" => Len(started) = Len(planned)

C19_Witness ==
    /\ bpc = "done"
    /\ Len(resolutions) = 2
    /\ Len(states) = 2
    /\ Len(mapa_dados_file) = 2
    /\ Len(LoadTrends(trends_file)) = 1
    /\ total_fail >= 1

\* C24: between two consecutive fetch tasks there is exactly one delay sleep, taken
\* right after the earlier task ended, saved or failed alike; no task starts
\* without a delay sleep since the task before it.
C24_OneDelayBetweenTasks ==
    /\ \A i \in 1..Len(events) :
          /\ (events[i].ev = "task" /\ i > 1) =>
                /\ events[i - 1].ev = "delay"
                /\ i > 2 /\ events[i - 2].ev \in {"saved", "failure"}
          /\ (events[i].ev \in {"saved", "failure"}) =>
                /\ i > 1 /\ events[i - 1].ev = "task"
                /\ i < Len(events) /\ events[i + 1].ev = "delay"
          /\ events[i].ev = "delay" =>
                i > 1 /\ events[i - 1].ev \in {"saved", "failure"}
    /\ \A i, j \in 1..Len(events) :
          (i < j /\ events[i].ev = "task" /\ events[j].ev = "task") =>
              Cardinality({k \in (i + 1)..(j - 1) : events[k].ev = "delay"}) >= 1
    /\ \A i, j \in 1..Len(events) :
          (i < j /\ events[i].ev = "task" /\ events[j].ev = "task"
             /\ \A k \in (i + 1)..(j - 1) : events[k].ev # "task") =>
              Cardinality({k \in (i + 1)..(j - 1) : events[k].ev = "delay"}) = 1

\* a task that ended in failure and a task that was saved were each followed by
\* one delay and then by the next task
C24_Witness ==
    \E i, j \in 1..Len(events) :
        /\ events[i].ev = "failure" /\ i + 2 <= Len(events) /\ events[i + 2].ev = "task"
        /\ events[j].ev = "saved" /\ j + 2 <= Len(events) /\ events[j + 2].ev = "task"

\* ------------------------------------------------------------------------
\* Properties of the consolidation run
\* ------------------------------------------------------------------------
\* C6: after a successful consolidation run every fragment the run consumed and
\* moved is in downloads and no longer in the data directory, every fragment whose
\* move failed is in the data directory only; no fragment is in both or in neither.
C6_ArchiveExactlyOnce ==
    /\ cpc = "done" =>
          \A n \in DOMAIN inputs :
              IF n \in moveFailed
              THEN n \in DOMAIN dataDir /\ n \notin DOMAIN downloads
                   /\ dataDir[n] = inputs[n]
              ELSE n \in DOMAIN downloads /\ n \notin DOMAIN dataDir
                   /\ downloads[n] = inputs[n]
    /\ (DOMAIN dataDir) \cap (DOMAIN downloads) = {}
    /\ \A n \in DOMAIN inputs : n \in (DOMAIN dataDir) \cup (DOMAIN downloads)
    /\ cpc = "done" => moved_files + Cardinality(moveFailed) = Len(AllFiles)

C6_Witness ==
    cpc = "done" /\ moveFailed # {} /\ moved_files >= 2

\* what an uninterrupted run builds from the globbed files, computed at once
RECURSIVE RefKeys(_, _)
RefKeys(files, i) ==
    IF i = 0 THEN <<>>
    ELSE IF Len(SplitName(files[i])) < 4 THEN RefKeys(files, i - 1)
         ELSE WithKey(RefKeys(files, i - 1), SplitName(files[i])[2])

RECURSIVE RefIngest(_, _, _)
RefIngest(files, bodies, i) ==
    IF i = 0 THEN <<>>
    ELSE IF Len(SplitName(files[i])) < 4 THEN RefIngest(files, bodies, i - 1)
         ELSE IngestRecords(RefIngest(files, bodies, i - 1), SplitName(files[i])[2],
                            SplitName(files[i])[3], bodies[files[i]].recs, 1)

RECURSIVE RefLookup(_, _, _)
RefLookup(files, bodies, i) ==
    IF i = 0 THEN <<>>
    ELSE IF Len(SplitName(files[i])) < 5 THEN RefLookup(files, bodies, i - 1)
         ELSE LET parts == SplitName(files[i])
              IN Overlay(RefLookup(files, bodies, i - 1),
                         TrendEntries(parts[3], parts[4], parts[5], parts[6],
                                      bodies[files[i]]))

RefEntities ==
    LET keys == RefKeys(indicator_files, Len(indicator_files))
        ents == Merge(RefIngest(indicator_files, inputs, Len(indicator_files)),
                      RefLookup(future_trend_files, inputs, Len(future_trend_files)))
    IN WriteOrder(keys, ents)

RECURSIVE RefFiles(_, _, _)
RefFiles(files, ents, i) ==
    IF i = 0 THEN files
    ELSE Put(RefFiles(files, ents, i - 1), OutPath(ents[i]), ents[i].data)

RECURSIVE RefFilelist(_, _)
RefFilelist(ents, i) ==
    IF i = 0 THEN <<>>
    ELSE WithFilelistEntry(RefFilelist(ents, i - 1), FilelistEntry(ents[i]))

MidRun == cpc \in {"present", "future", "write"} \/ (cpc = "crashed" /\ cerr # "final_print")

\* C7: no fragment is moved before every entity file and the manifest are written;
\* when a run crashes before that, every input fragment is still in the data
\* directory, and the repeated run leaves the entity files and the manifest an
\* uninterrupted run leaves.
C7_ArchiveLastRepeatable ==
    /\ MidRun =>
          /\ moved_files = 0
          /\ \A n \in DOMAIN inputs :
                n \in DOMAIN dataDir /\ dataDir[n] = inputs[n] /\ n \notin DOMAIN downloads
    /\ cpc = "archive" =>
          /\ wi = Len(entities)
          /\ \A i \in 1..Len(entities) : OutPath(entities[i]) \in DOMAIN entityFiles
          /\ manifestFile = ManifestDoc(resKeys, entity_filelist)
    /\ (repeating /\ cpc \in {"archive", "done"}) =>
          /\ entityFiles = RefFiles(base, RefEntities, Len(RefEntities))
          /\ manifestFile =
                ManifestDoc(RefKeys(indicator_files, Len(indicator_files)),
                            RefFilelist(RefEntities, Len(RefEntities)))

C7_Witness ==
    /\ repeating
    /\ cpc = "done"
    /\ Len(entities) >= 2
    /\ future_lookup # <<>>

\* C9: a malformed fragment met during consolidation is skipped for that file only:
\* the run goes on and still writes the entity files and the manifest and archives.
C9_MalformedFragmentSkipped ==
    ~(cpc = "crashed" /\ cerr = "load_json")

\* C10: a second consolidation of the same unarchived fragment files leaves the
\* entity files and the manifest the first one left: nothing is added or duplicated.
C10_SecondRunSameOutput ==
    (cpc = "archive" /\ prevOut.valid /\ prevOut.inputs = inputs) =>
        /\ entityFiles = prevOut.entityFiles
        /\ manifestFile = prevOut.manifest

C10_Witness ==
    /\ cpc = "archive"
    /\ prevOut.valid
    /\ prevOut.inputs = inputs
    /\ runs = 2
    /\ Len(entities) >= 2
    /\ future_lookup # <<>>

\* what a first run on an empty output directory leaves when the data directory
\* holds the given files and lists them in the given order: the entity files, and
\* the manifest entries as a set
OutputOf(bodies, order) ==
    LET ind == GlobIndicator(bodies, order)
        fut == GlobFuture(bodies, order)
        ents == WriteOrder(RefKeys(ind, Len(ind)),
                           Merge(RefIngest(ind, bodies, Len(ind)),
                                 RefLookup(fut, bodies, Len(fut))))
    IN [files |-> RefFiles(EmptyDir, ents, Len(ents)),
        entries |-> Range(RefFilelist(ents, Len(ents)))]

OutputFor(order) == OutputOf(inputs, order)

\* C11: the consolidated output (every entity file with its name, geocode and
\* indicators list, and the manifest entries) a first run leaves is the one it
\* would leave under every other order of ingesting the same fragment files.
C11_OrderIndependent ==
    (cpc = "archive" /\ runs = 1) =>
        \A o \in ListingOrders(DOMAIN inputs) :
            OutputFor(o) = [files |-> entityFiles,
                            entries |-> Range(manifestFile.entries)]

\* C12: once phase 1 and the merge are over, for every present-value fragment F
\* that was ingested and every record of F, the entity record of (resolution,
\* state, id) holds an observation whose indicator_id and year are those of F's
\* file name and whose value is the record's value.
C12_ObservationMatchesFragment ==
    cpc = "archive" =>
        \A n \in Range(indicator_files) :
            \A k \in 1..Len(inputs[n].recs) :
                LET parts == SplitName(n)
                    rec == inputs[n].recs[k]
                    at == FindEntity(entities, parts[2], parts[3], Str(rec.id), 1)
                IN /\ at # 0
                   /\ \E j \in 1..Len(entities[at].data.indicators) :
                         /\ entities[at].data.indicators[j].indicator_id = parts[4]
                         /\ entities[at].data.indicators[j].year = parts[5]
                         /\ entities[at].data.indicators[j].value = rec.value

\* C13: the merge joins by the indicator id of the file names: whenever a
\* present-value fragment (resolution, state, indicator i) holds a record of
\* entity e and the lookup built from the future-trend fragments of the same
\* (resolution, state, indicator i) has an entry for e and year y, the record of
\* e has an observation of indicator i with the record's value whose
\* future_trends[y] is that entry (value 3.5 with future_trends[2030].value 4.2
\* for entity 4106902 of municipio/PR/2).
C13_JoinByFileNameIndicator ==
    cpc = "archive" =>
        \A n \in {m \in Range(indicator_files) : Len(SplitName(m)) >= 5} :
            \A k \in 1..Len(inputs[n].recs) :
                \A y \in Range(FutureYears) :
                    LET parts == SplitName(n)
                        rec == inputs[n].recs[k]
                        e == Str(rec.id)
                        sc == FirstScenario(future_lookup, parts[2], parts[3], e,
                                            parts[4], y, 1)
                        at == FindEntity(entities, parts[2], parts[3], e, 1)
                    IN sc # 0 =>
                         /\ at # 0
                         /\ \E j \in 1..Len(entities[at].data.indicators) :
                              LET obs == entities[at].data.indicators[j]
                              IN /\ obs.indicator_id = parts[4]
                                 /\ obs.value = rec.value
                                 /\ y \in DOMAIN obs.future_trends
                                 /\ obs.future_trends[y] =
                                      future_lookup[<<parts[2], parts[3], e, parts[4], y,
                                                      ScenarioOrder[sc]>>]

\* the scenarios, as positions of the priority list, that have a lookup entry
\* for this entity, indicator and year
ScenariosWithData(ent, ind, y) ==
    {k \in 1..Len(ScenarioOrder) :
        <<ent.resolution, ent.state_code, ent.entity_id, ind, y, ScenarioOrder[k]>>
            \in DOMAIN future_lookup}

\* C14: after the merge, for every observation of every entity and each of the
\* years 2030 and 2050: when some scenario has a lookup entry for that entity,
\* indicator and year, future_trends[year] is the entry of the earliest such
\* scenario in the order verylow, low, mid, high, veryhigh; when none has, the
\* year is absent from future_trends.
C14_FirstScenarioWins ==
    cpc = "archive" =>
        \A n \in 1..Len(entities) :
            \A j \in 1..Len(entities[n].data.indicators) :
                \A y \in Range(FutureYears) :
                    LET obs == entities[n].data.indicators[j]
                        has == ScenariosWithData(entities[n], Str(obs.indicator_id), y)
                    IN IF has = {}
                       THEN y \notin DOMAIN obs.future_trends
                       ELSE /\ y \in DOMAIN obs.future_trends
                            /\ LET first == CHOOSE k \in has : \A m \in has : k <= m
                               IN obs.future_trends[y] =
                                    future_lookup[<<entities[n].resolution,
                                                    entities[n].state_code,
                                                    entities[n].entity_id,
                                                    Str(obs.indicator_id), y,
                                                    ScenarioOrder[first]>>]

\* one entity has two scenarios to choose from, another only the later one
C14_Witness ==
    /\ cpc = "archive"
    /\ \E n, m \in 1..Len(entities) :
          /\ \E j \in 1..Len(entities[n].data.indicators) :
                /\ Cardinality(ScenariosWithData(entities[n],
                        Str(entities[n].data.indicators[j].indicator_id), "2050")) = 2
                /\ entities[n].data.indicators[j].future_trends["2050"].value = "2.5"
          /\ \E j \in 1..Len(entities[m].data.indicators) :
                /\ ScenariosWithData(entities[m],
                        Str(entities[m].data.indicators[j].indicator_id), "2050") = {4}
                /\ entities[m].data.indicators[j].future_trends["2050"].value = "1.9"

\* the geocode a file name is meant to carry: the IBGE geocode when the entity has one, else its id
GeocodeOrId(ent) ==
    IF ent.data.geocod_ibge # Null THEN ent.data.geocod_ibge ELSE ent.entity_id

\* C20: every entity record is written to {entity_type}_{geocode}.json, the
\* geocode being the IBGE geocode when the entity has one and the entity id
\* otherwise, under BR for regiao records and under the state's directory for
\* the others; the manifest entry of the entity names that same file.
C20_EntityFilePath ==
    cpc = "archive" =>
        \A i \in 1..Len(entities) :
            LET ent == entities[i]
                path == [dir |-> IF ent.resolution = "regiao" THEN "BR"
                                 ELSE ent.state_code,
                         type |-> EntityType(ent.resolution),
                         geocode |-> GeocodeOrId(ent)]
                at == FindFilelist(manifestFile.entries, ent.resolution,
                                   ent.entity_id, 1)
            IN /\ path \in DOMAIN entityFiles
               /\ at # 0
               /\ manifestFile.entries[at].file = path

\* C21: the manifest a run writes holds exactly the entities built from the
\* fragments ingested in that run: every entry is the filelist entry of an entity
\* record of this run, every entity record of this run has its entry, and the
\* resolutions are those ingested; nothing comes from an earlier manifest.
C21_ManifestRebuilt ==
    cpc = "archive" =>
        /\ manifestFile.t = "manifest"
        /\ manifestFile.resolutions = resKeys
        /\ \A k \in 1..Len(manifestFile.entries) :
              \E i \in 1..Len(entities) :
                  manifestFile.entries[k] = FilelistEntry(entities[i])
        /\ \A i \in 1..Len(entities) :
              FindFilelist(manifestFile.entries, entities[i].resolution,
                           entities[i].entity_id, 1) # 0

\* the second run writes a manifest without an entity the first manifest had
C21_Witness ==
    /\ cpc = "archive"
    /\ runs = 2
    /\ prevOut.valid
    /\ manifestFile.entries # <<>>
    /\ \E k \in 1..Len(prevOut.manifest.entries) :
          prevOut.manifest.entries[k] \notin Range(manifestFile.entries)

\* C22: an observation whose entity and indicator have no future-trend entry in
\* any scenario for any projection year carries a future_trends field that is the
\* empty map, in the entity record and in the entity file written from it.
C22_EmptyFutureTrendsKept ==
    cpc = "archive" =>
        /\ \A i \in 1..Len(entities) :
              \A j \in 1..Len(entities[i].data.indicators) :
                  LET obs == entities[i].data.indicators[j]
                  IN (\A y \in Range(FutureYears) :
                         ScenariosWithData(entities[i], Str(obs.indicator_id), y) = {})
                        => /\ "future_trends" \in DOMAIN obs
                           /\ obs.future_trends = <<>>
        /\ \A i \in 1..Len(entities) :
              \A j \in 1..Len(entityFiles[OutPath(entities[i])].indicators) :
                  "future_trends" \in DOMAIN entityFiles[OutPath(entities[i])].indicators[j]

\* one entity has an observation with trends and another observation without any
C22_Witness ==
    /\ cpc = "archive"
    /\ \E i \in 1..Len(entities) :
          \E j, k \in 1..Len(entities[i].data.indicators) :
              /\ entities[i].data.indicators[j].future_trends = <<>>
              /\ entities[i].data.indicators[k].future_trends # <<>>
              /\ entityFiles[OutPath(entities[i])] = entities[i].data

EntriesOfFile(i) ==
    LET f == future_trend_files[i]
        parts == SplitName(f)
    IN IF Len(parts) < 6 THEN <<>>
       ELSE TrendEntries(parts[3], parts[4], parts[5], parts[6], inputs[f])

\* the future-trend files phase 2 has gone through
FutureFilesDone == IF cpc = "future" THEN fi ELSE Len(future_trend_files)

\* C25: when two future-trend files yield the same lookup key, the index holds for
\* that key the entry of the file processed later, and the run does not stop in
\* error for it: the keys of the index are those of the files gone through, each
\* with the entry of the last file that yields it.
C25_LastFutureFileWins ==
    cpc \in {"future", "write", "manifest", "archive", "done"} =>
        LET n == FutureFilesDone
        IN /\ DOMAIN future_lookup = UNION {DOMAIN EntriesOfFile(i) : i \in 1..n}
           /\ \A k \in DOMAIN future_lookup :
                 \E i \in 1..n :
                    /\ k \in DOMAIN EntriesOfFile(i)
                    /\ \A j \in (i + 1)..n : k \notin DOMAIN EntriesOfFile(j)
                    /\ future_lookup[k] = EntriesOfFile(i)[k]

\* two files of one run gave the same key with different entries, and the run ended well
C25_Witness ==
    /\ cpc = "done"
    /\ \E i, j \in 1..Len(future_trend_files) :
          /\ i < j
          /\ \E k \in (DOMAIN EntriesOfFile(i)) \cap (DOMAIN EntriesOfFile(j)) :
                /\ EntriesOfFile(i)[k] # EntriesOfFile(j)[k]
                /\ future_lookup[k] = EntriesOfFile(j)[k]

\* the records of entity e of (r, st) in the first n present-value files of the
\* run, in the order the run reads them
RECURSIVE RecordsOf(_, _, _, _)
RecordsOf(r, st, e, n) ==
    IF n = 0 THEN <<>>
    ELSE LET f == indicator_files[n]
             parts == SplitName(f)
         IN IF Len(parts) < 4 \/ parts[2] # r \/ parts[3] # st \/ inputs[f].t # "list"
            THEN RecordsOf(r, st, e, n - 1)
            ELSE RecordsOf(r, st, e, n - 1)
                   \o SelectSeq(inputs[f].recs, LAMBDA rec : Str(rec.id) = e)

\* C26: when the same (entity, indicator) pair is in two present-value fragments of
\* one resolution and state, the entity record has one observation per record
\* read, in reading order, each with the value and year of its record, and the
\* merge gives observations of the same indicator the same future_trends.
C26_BothObservationsKept ==
    cpc = "archive" =>
        \A i \in 1..Len(entities) :
            LET ent == entities[i]
                recs == RecordsOf(ent.resolution, ent.state_code, ent.entity_id,
                                  Len(indicator_files))
                obs == ent.data.indicators
            IN /\ Len(obs) = Len(recs)
               /\ \A j \in 1..Len(obs) :
                     /\ obs[j].value = recs[j].value
                     /\ obs[j].year = recs[j].year
                     /\ obs[j].indicator_id = recs[j].indicator_id
               /\ \A j, k \in 1..Len(obs) :
                     obs[j].indicator_id = obs[k].indicator_id
                        => obs[j].future_trends = obs[k].future_trends
               /\ entityFiles[OutPath(ent)].indicators # <<>>

\* one entity has two observations of one indicator, from two fragments, and both
\* carry the same trend entries
C26_Witness ==
    /\ cpc = "archive"
    /\ \E i \in 1..Len(entities) :
          \E j, k \in 1..Len(entities[i].data.indicators) :
              LET obs == entities[i].data.indicators
              IN /\ j < k
                 /\ obs[j].indicator_id = obs[k].indicator_id
                 /\ obs[j].year # obs[k].year
                 /\ obs[j].future_trends # <<>>
                 /\ obs[k].future_trends = obs[j].future_trends
                 /\ entityFiles[OutPath(entities[i])] = entities[i].data

\* C27: two distinct entity records of one run are written to distinct files and
\* have distinct manifest entries: after the write loop the entity files written
\* and the manifest entries are as many as the entity records.
C27_DistinctEntitiesDistinctFiles ==
    cpc = "archive" =>
        /\ \A i, j \in 1..Len(entities) :
              i # j => OutPath(entities[i]) # OutPath(entities[j])
        /\ Cardinality({OutPath(entities[i]) : i \in 1..Len(entities)}) = Len(entities)
        /\ Len(manifestFile.entries) = Len(entities)
        /\ \A i \in 1..Len(entities) :
              entityFiles[OutPath(entities[i])] = entities[i].data

\* C28: after any sequence of consolidation runs, once a run has gone through its
\* last step, every consolidated entity file on disk is referenced by an entry
\* of the manifest on disk.
C28_EveryEntityFileListed ==
    (cpc = "done" \/ (cpc = "crashed" /\ cerr = "final_print")) =>
        /\ manifestFile.t = "manifest"
        /\ \A p \in DOMAIN entityFiles :
              \E k \in 1..Len(manifestFile.entries) : manifestFile.entries[k].file = p

\* C29: a file that matches a fragment glob but whose name has fewer fields than
\* the naming grammar asks for is skipped without raising: no run stops on the
\* name of a file, and a run stopped by load_json stopped at a file whose name
\* has all the fields.
C29_ShortNamesSkipped ==
    /\ cerr # "IndexError"
    /\ (cpc = "crashed" /\ cerr = "load_json") =>
          \/ (fi < Len(indicator_files)
                /\ Len(SplitName(indicator_files[fi + 1])) >= 5)
          \/ (fi < Len(future_trend_files)
                /\ Len(SplitName(future_trend_files[fi + 1])) >= 6)

\* a globbed file whose content the run has put in its maps: a present-value file
\* with a name of the expected form, a future-trend file with such a name and
\* its year key
Ingested(n) ==
    IF MatchesIndicatorGlob(n)
    THEN Len(SplitName(n)) >= 4 /\ inputs[n].t = "list"
    ELSE /\ Len(SplitName(n)) >= 6
         /\ inputs[n].t = "trend"
         /\ SplitName(n)[6] \in DOMAIN inputs[n].years

\* C30: a run moves to the archive only the fragment files whose content it
\* ingested; a file it skipped (unexpected name, or a future-trend file without
\* its year key) stays in the data directory.
C30_OnlyIngestedArchived ==
    cpc \in {"archive", "done"} =>
        \A k \in 1..mi :
            ~Ingested(AllFiles[k]) =>
                /\ AllFiles[k] \in DOMAIN dataDir
                /\ AllFiles[k] \notin DOMAIN downloads

\* ------------------------------------------------------------------------
\* Properties of the pipeline (specification SpecPipeline)
\* ------------------------------------------------------------------------

\* the consolidation run went through its archiving loop to the end
ArchivingEnded == cpc = "done" \/ (cpc = "crashed" /\ cerr = "final_print")

\* C8: once the batch has ended normally and the next consolidation run has
\* gone through its archiving step without a failed move, no fragment the batch
\* persisted is left unconsumed: the data directory and its BR/ subdirectory
\* hold no fragment file any more, all of them are in the archive.
C8_EveryFragmentConsumed ==
    (bpc = "done" /\ ArchivingEnded /\ moveFailed = {})
        => /\ DOMAIN dataDir = {}
           /\ DOMAIN brDir = {}

\* C17: the state override applies to the regiao resolution only: when regiao
\* is configured together with other resolutions, every task of another
\* resolution is for one of the configured states.
C17_OverrideOnlyForRegiao ==
    (bpc = "fetch" /\ CurrentTask.resolution # "regiao")
        => CurrentTask.state \in Range(cfg_state)

\* a raw copy written under the debug flag: "..._{year}_raw.json"
IsRawCopy(name) == name.parts[Len(name.parts)] = "raw"

\* the fragment directory the same batch run leaves with the flag off
WithoutRawCopies(dir) == [n \in {m \in DOMAIN dir : ~IsRawCopy(m)} |-> dir[n]]

\* C15: the raw copies written under the debug flag have no effect on the
\* consolidation: the entity files and the manifest entries it leaves on the
\* directory produced with the flag on are those it leaves on the directory the
\* same batch run produces with the flag off.
C15_DebugCopiesNoEffect ==
    (bpc = "done" /\ debug /\ cpc = "archive") =>
        [files |-> entityFiles, entries |-> Range(manifestFile.entries)]
            = OutputOf(WithoutRawCopies(inputs), dirOrder)

\* ------------------------------------------------------------------------
\* Properties of the planner (specification SpecPlan)
\* ------------------------------------------------------------------------
Planned == bpc = "resolutions"

AllStates == Range(get_all_brazilian_states)

\* C16: when the resolutions contain regiao and the configured states are a
\* strict subset of all states, the planner's state list is the enumerated list
\* of the 27 states and exactly one override is logged.
C16_OverrideToAllStates ==
    (/\ Planned
     /\ "regiao" \in Range(cfg_resolution)
     /\ Range(cfg_state) \subseteq AllStates
     /\ Range(cfg_state) # AllStates)
        => /\ states = get_all_brazilian_states
           /\ Len(states) = 27
           /\ Cardinality(Range(states)) = 27
           /\ overrides = 1

C16_Witness ==
    /\ Planned
    /\ "regiao" \in Range(cfg_resolution)
    /\ cfg_state = <<"PR", "SP">>
    /\ overrides = 1

\* C18: the override is idempotent: when the configured states already are all
\* the states, in any order, the state list is left as configured and no override
\* is logged; and the list the planner ends with is one the override leaves alone.
C18_OverrideIdempotent ==
    /\ (Planned /\ Range(cfg_state) = AllStates)
          => states = cfg_state /\ overrides = 0
    /\ Planned
          => /\ OverriddenStates(states, resolutions) = states
             /\ ~("regiao" \in Range(resolutions)
                    /\ NeedsOverride(states, get_all_brazilian_states))

C18_Witness ==
    /\ Planned
    /\ "regiao" \in Range(cfg_resolution)
    /\ cfg_state = Reversed(get_all_brazilian_states)
    /\ states = cfg_state
    /\ overrides = 0

====
